---- MODULE Spec2Model ----
(***************************************************************************)
(* A model of the BIDS resolver (scripts/resolve_bids.py).                 *)
(*                                                                         *)
(* Strings are sequences of one-character strings, so that the regular     *)
(* expressions of the program are modelled by what they match.  JSON       *)
(* values are tagged records [t |-> <type>, v |-> <payload>], so that the  *)
(* program's isinstance tests and its type errors can be modelled.         *)
(***************************************************************************)
EXTENDS Integers, Sequences, FiniteSets, TLC

(***************************************************************************)
(* Characters and strings                                                  *)
(***************************************************************************)

\* The characters of the model in code point order (Python compares strings
\* by code point).
CharOrder ==
  << "-", ".", "/", "0", "1", "2", "3", "4", "5", "6", "7", "8", "9",
     "A", "B", "C", "D", "E", "F", "G", "H", "I", "J", "K", "L", "M",
     "N", "O", "P", "Q", "R", "S", "T", "U", "V", "W", "X", "Y", "Z",
     "_",
     "a", "b", "c", "d", "e", "f", "g", "h", "i", "j", "k", "l", "m",
     "n", "o", "p", "q", "r", "s", "t", "u", "v", "w", "x", "y", "z" >>

Ord(c) == CHOOSE i \in 1..Len(CharOrder) : CharOrder[i] = c

Digits == {"0", "1", "2", "3", "4", "5", "6", "7", "8", "9"}
Upper == {"A", "B", "C", "D", "E", "F", "G", "H", "I", "J", "K", "L", "M",
          "N", "O", "P", "Q", "R", "S", "T", "U", "V", "W", "X", "Y", "Z"}
Lower == {"a", "b", "c", "d", "e", "f", "g", "h", "i", "j", "k", "l", "m",
          "n", "o", "p", "q", "r", "s", "t", "u", "v", "w", "x", "y", "z"}

\* The character class [a-zA-Z0-9].
IsAlnum(c) == c \in Digits \cup Upper \cup Lower

\* str.lower() on one character: the letter 26 + 1 places later in CharOrder.
LowerChar(c) == IF c \in Upper THEN CharOrder[Ord(c) + 27] ELSE c

\* s[i:] and s[:i] with Python's 0-based offsets.
From(s, i) == SubSeq(s, i + 1, Len(s))
Upto(s, i) == SubSeq(s, 1, i)

\* s.startswith(p) at 0-based offset i.
StartsWithAt(s, i, p) ==
  /\ i + Len(p) <= Len(s)
  /\ SubSeq(s, i + 1, i + Len(p)) = p

StartsWith(s, p) == StartsWithAt(s, 0, p)
EndsWith(s, p) == Len(p) <= Len(s) /\ From(s, Len(s) - Len(p)) = p

AllAlnum(s) == \A i \in 1..Len(s) : IsAlnum(s[i])

\* Python's < on two strings.
RECURSIVE StrLess(_, _)
StrLess(a, b) ==
  IF b = <<>> THEN FALSE
  ELSE IF a = <<>> THEN TRUE
  ELSE IF a[1] = b[1] THEN StrLess(Tail(a), Tail(b))
  ELSE Ord(a[1]) < Ord(b[1])

\* Python's < on two paths: pathlib compares the lists of path parts.
RECURSIVE PathLess(_, _)
PathLess(p, q) ==
  IF q = <<>> THEN FALSE
  ELSE IF p = <<>> THEN TRUE
  ELSE IF p[1] = q[1] THEN PathLess(Tail(p), Tail(q))
  ELSE StrLess(p[1], q[1])

\* sorted(paths): a stable insertion sort of a sequence of paths.
RECURSIVE InsertPath(_, _)
InsertPath(sortedSeq, p) ==
  IF sortedSeq = <<>> THEN <<p>>
  ELSE IF PathLess(p, sortedSeq[1]) THEN <<p>> \o sortedSeq
  ELSE <<sortedSeq[1]>> \o InsertPath(Tail(sortedSeq), p)

RECURSIVE SortFrom(_, _)
SortFrom(acc, rest) ==
  IF rest = <<>> THEN acc ELSE SortFrom(InsertPath(acc, rest[1]), Tail(rest))

Unsorted(paths) == paths

sorted(paths) == SortFrom(<<>>, paths)

(***************************************************************************)
(* The literals of the program                                             *)
(***************************************************************************)
ENTITY_KEYS ==
  << <<"s","u","b">>, <<"s","e","s">>, <<"t","a","s","k">>, <<"a","c","q">>,
     <<"c","e">>, <<"r","e","c">>, <<"d","i","r">>, <<"r","u","n">>,
     <<"m","o","d">>, <<"e","c","h","o">>, <<"f","l","i","p">>,
     <<"i","n","v">>, <<"m","t">>, <<"p","a","r","t">>, <<"p","r","o","c">>,
     <<"s","p","a","c","e">>, <<"s","p","l","i","t">>,
     <<"r","e","c","o","r","d","i","n","g">>, <<"c","h","u","n","k">> >>

K_task == <<"t","a","s","k">>
K_run == <<"r","u","n">>
K_acq == <<"a","c","q">>

DotNii == <<".","n","i","i">>
DotNiiGz == <<".","n","i","i",".","g","z">>
DotJson == <<".","j","s","o","n">>
BoldNii == <<"_","b","o","l","d",".","n","i","i">>
BoldNiiGz == <<"_","b","o","l","d",".","n","i","i",".","g","z">>
EventsTsv == <<"_","e","v","e","n","t","s",".","t","s","v">>
EventsKey == <<"_","e","v","e","n","t","s">>
SubDash == <<"s","u","b","-">>
SesDash == <<"s","e","s","-">>
All == <<"a","l","l">>

\* None, and what a function that did not return leaves behind.
None == [t |-> "none"]

(***************************************************************************)
(* JSON values, as Python holds them                                       *)
(***************************************************************************)
JStr(s) == [t |-> "str", v |-> s]
JNum(n) == [t |-> "num", v |-> n]
JList(l) == [t |-> "list", v |-> l]
JObj(f) == [t |-> "obj", v |-> f]
JTrue == [t |-> "bool", v |-> TRUE]

\* Python's == on two values.
PyEq(a, b) == a.t = b.t /\ a = b

\* x in l, for a list l.
InList(x, l) == \E i \in 1..Len(l) : PyEq(x, l[i])

\* Python's truth value of a value.
Truthy(x) ==
  CASE x.t = "none" -> FALSE
    [] x.t = "bool" -> x.v
    [] x.t = "num" -> x.v # 0
    [] x.t = "str" -> x.v # <<>>
    [] x.t = "list" -> x.v # <<>>
    [] x.t = "obj" -> DOMAIN x.v # {}
    [] OTHER -> TRUE

\* d.get(k) and d.get(k, default) on a dict d.
Get(d, k) == IF k \in DOMAIN d THEN d[k] ELSE None
GetOr(d, k, default) == IF k \in DOMAIN d THEN d[k] ELSE default

\* entities.get(key): the values of the parsed entities are strings.
EntityGet(entities, key) ==
  IF key \in DOMAIN entities THEN JStr(entities[key]) ELSE None

(***************************************************************************)
(* matches_selection                                                       *)
(***************************************************************************)

\* A filter on one entity that must equal the selection's value.
EqualFilterPasses(entities, selection, field, key) ==
  IF field \in DOMAIN selection /\ ~PyEq(selection[field], JStr(All))
  THEN PyEq(EntityGet(entities, key), selection[field])
  ELSE TRUE

\* A run filter that lets a file without a run entity through.
RunFilterSkipsAbsent(entities, selection) ==
  IF "run" \in DOMAIN selection /\ ~PyEq(selection["run"], JStr(All))
  THEN LET run_val == selection["run"]
       IN IF K_run \notin DOMAIN entities THEN TRUE
          ELSE IF run_val.t = "list"
               THEN InList(EntityGet(entities, K_run), run_val.v)
               ELSE PyEq(EntityGet(entities, K_run), run_val)
  ELSE TRUE

\* The run filter: membership for a list, equality otherwise.
RunFilterPasses(entities, selection) ==
  IF "run" \in DOMAIN selection /\ ~PyEq(selection["run"], JStr(All))
  THEN LET run_val == selection["run"]
       IN IF run_val.t = "list"
          THEN InList(EntityGet(entities, K_run), run_val.v)
          ELSE PyEq(EntityGet(entities, K_run), run_val)
  ELSE TRUE

SuffixFilterPasses(parsed, selection) ==
  IF "suffix" \in DOMAIN selection
  THEN PyEq(JStr(parsed.suffix), selection["suffix"])
  ELSE TRUE

matches_selection(parsed, selection) ==
  /\ SuffixFilterPasses(parsed, selection)
  /\ EqualFilterPasses(parsed.entities, selection, "task", K_task)
  /\ RunFilterPasses(parsed.entities, selection)
  /\ EqualFilterPasses(parsed.entities, selection, "acq", K_acq)

(***************************************************************************)
(* parse_bids_filename                                                     *)
(***************************************************************************)

\* The least element of a set of integers, or the given value for none.
MinOr(S, none) == IF S = {} THEN none ELSE CHOOSE i \in S : \A j \in S : i <= j

\* NIFTI_PATTERN.search(s): the 0-based offset of the leftmost match of
\* \.(nii\.gz|nii)$ in s, or -1.
NiftiSearch(s) ==
  MinOr({ i \in 0..(Len(s) - 1) :
            From(s, i) = DotNiiGz \/ From(s, i) = DotNii }, -1)

\* A value class that leaves out the digits and the capitals.
RECURSIVE LowerRun(_, _)
LowerRun(s, i) ==
  IF i < Len(s) /\ s[i + 1] \in Lower THEN 1 + LowerRun(s, i + 1) ELSE 0

\* The length of the greedy run [a-zA-Z0-9]* of s from 0-based offset i.
RECURSIVE AlnumRun(_, _)
AlnumRun(s, i) ==
  IF i < Len(s) /\ IsAlnum(s[i + 1]) THEN 1 + AlnumRun(s, i + 1) ELSE 0

\* (key)-([a-zA-Z0-9]+) at 0-based offset i of s, for the given key.
KeyMatchesAt(s, i, key) ==
  /\ StartsWithAt(s, i, key \o <<"-">>)
  /\ AlnumRun(s, i + Len(key) + 1) > 0

\* The first alternative of the key union that lets the whole token match at
\* offset i, or 0.
FirstKeyAt(s, i) ==
  MinOr({ k \in 1..Len(ENTITY_KEYS) : KeyMatchesAt(s, i, ENTITY_KEYS[k]) }, 0)

\* The match object of a token whose value starts at valAt and is valLen long.
MatchObject(s, key, valAt, valLen) ==
  [t |-> "match", key |-> key,
   value |-> SubSeq(s, valAt + 1, valAt + valLen),
   end |-> valAt + valLen]

\* The match of the token whose key, the k-th, starts at keyAt; None for k = 0.
TokenAt(s, keyAt, k) ==
  IF k = 0 THEN None
  ELSE MatchObject(s, ENTITY_KEYS[k], keyAt + Len(ENTITY_KEYS[k]) + 1,
                   AlnumRun(s, keyAt + Len(ENTITY_KEYS[k]) + 1))

\* The first of two alternatives that matched.
FirstMatch(a, b) == IF a # None THEN a ELSE b

\* ENTITY_PATTERN.match at 0-based offset i: the match or None.  The
\* alternative ^ is tried before the alternative _ .
EntityMatchAt(s, i) ==
  FirstMatch(IF i = 0 THEN TokenAt(s, 0, FirstKeyAt(s, 0)) ELSE None,
             IF i < Len(s) /\ s[i + 1] = "_"
             THEN TokenAt(s, i + 1, FirstKeyAt(s, i + 1)) ELSE None)

\* ENTITY_PATTERN.finditer(stem) from offset i: the non-overlapping matches,
\* left to right.  The scan goes on at the end of a match m, and at the next
\* offset when there is none.
RECURSIVE EntityMatches(_, _)
RECURSIVE ScanOn(_, _, _)
ScanOn(stem, i, m) ==
  IF m = None THEN EntityMatches(stem, i + 1)
  ELSE <<m>> \o EntityMatches(stem, m.end)

EntityMatches(stem, i) ==
  IF i > Len(stem) THEN <<>> ELSE ScanOn(stem, i, EntityMatchAt(stem, i))

\* d[k] = v on a dict d, modelled as a function from its keys.
DictPut(d, k, v) == [x \in DOMAIN d \cup {k} |-> IF x = k THEN v ELSE d[x]]

\* entities[key] = value for each match in turn: the last occurrence wins.
RECURSIVE DictOfMatches(_)
DictOfMatches(ms) ==
  IF ms = <<>> THEN <<>>
  ELSE DictPut(DictOfMatches(Upto(ms, Len(ms) - 1)),
               ms[Len(ms)].key, ms[Len(ms)].value)

\* Group 1 of the match of (?:^|_)([a-zA-Z0-9]+)$ at offset i of remaining.
SuffixGroup(remaining, i) ==
  IF i = -1 THEN None
  ELSE IF i = 0 /\ AllAlnum(remaining) THEN JStr(remaining)
  ELSE JStr(From(remaining, i + 1))

\* re.search(r'(?:^|_)([a-zA-Z0-9]+)$', remaining): group 1 or None.
SuffixSearch(remaining) ==
  SuffixGroup(remaining,
    MinOr({ i \in 0..(Len(remaining) - 1) :
              \/ /\ i = 0
                 /\ AllAlnum(remaining)
              \/ /\ remaining[i + 1] = "_"
                 /\ i + 1 < Len(remaining)
                 /\ AllAlnum(From(remaining, i + 1)) }, -1))

\* last_end after the loop over the matches.
LastEnd(ms) == IF ms = <<>> THEN 0 ELSE ms[Len(ms)].end

\* The end of parse_bids_filename: None without a suffix.
ParseResult(ms, suffix, extension) ==
  IF suffix = None THEN None
  ELSE [t |-> "parsed", entities |-> DictOfMatches(ms),
        suffix |-> suffix.v, extension |-> extension]

\* parse_bids_filename from the entity matches ms of the stem on.
ParseStem(stem, extension, ms) ==
  ParseResult(ms, SuffixSearch(From(stem, LastEnd(ms))), extension)

\* parse_bids_filename from the match of the extension, at offset at, on.
ParseAt(filename, at) ==
  IF at = -1 THEN None
  ELSE ParseStem(Upto(filename, at), From(filename, at),
                 EntityMatches(Upto(filename, at), 0))

parse_bids_filename(filename) == ParseAt(filename, NiftiSearch(filename))

(***************************************************************************)
(* The filesystem                                                          *)
(*                                                                         *)
(* A path is the sequence of its parts, the dataset root first.  A dataset *)
(* is [dirs, files, content]: the paths that are directories, the paths    *)
(* that are regular files, and what reading a file gives.                  *)
(***************************************************************************)

\* str(path): the parts joined by "/".
RECURSIVE PathStr(_)
PathStr(p) ==
  IF Len(p) = 1 THEN p[1]
  ELSE PathStr(Upto(p, Len(p) - 1)) \o <<"/">> \o p[Len(p)]

\* path / name
Child(p, name) == Append(p, name)

\* path.name
Name(p) == p[Len(p)]

is_dir(d, p) == p \in d.dirs
is_file(d, p) == p \in d.files

\* os.path.isfile on a path string.
isfile(d, str) == \E f \in d.files : PathStr(f) = str

\* The paths in a set, smallest first.
RECURSIVE Ascending(_)
Ascending(S) ==
  IF S = {} THEN <<>>
  ELSE LET least == CHOOSE p \in S : \A q \in S : q = p \/ PathLess(p, q)
       IN <<least>> \o Ascending(S \ {least})

Reverse(l) == [i \in 1..Len(l) |-> l[Len(l) + 1 - i]]

\* The order the filesystem lists entries in.
Listed(ord, entries) ==
  IF ord = "descending" THEN Reverse(entries) ELSE entries

\* path.iterdir(): the entries of a directory, in the order the filesystem
\* lists them in.
iterdir(d, ord, p) ==
  Listed(ord, Ascending({ q \in d.dirs \cup d.files :
                            Len(q) = Len(p) + 1 /\ Upto(q, Len(p)) = p }))

(***************************************************************************)
(* The companion resolver                                                  *)
(***************************************************************************)

\* The path string when it is a file, else None.
IfFile(d, str) == IF isfile(d, str) THEN JStr(str) ELSE None

\* NIFTI_PATTERN.sub('.json', s), the leftmost match being at offset at.
JsonSub(str, at) == IF at = -1 THEN str ELSE Upto(str, at) \o DotJson

\* find_sidecar: the path string with its NIfTI extension replaced by
\* .json, when that is a file.
find_sidecar(d, nifti_path) ==
  IfFile(d, JsonSub(nifti_path, NiftiSearch(nifti_path)))

\* re.sub(r'_bold\.(nii\.gz|nii)$', '_events.tsv', s): a string the pattern
\* does not match is returned as it is.
EventsSub(str) ==
  IF EndsWith(str, BoldNiiGz)
  THEN Upto(str, Len(str) - Len(BoldNiiGz)) \o EventsTsv
  ELSE IF EndsWith(str, BoldNii)
  THEN Upto(str, Len(str) - Len(BoldNii)) \o EventsTsv
  ELSE str

find_events_file(d, nifti_path) == IfFile(d, EventsSub(nifti_path))

(***************************************************************************)
(* find_matching_files                                                     *)
(***************************************************************************)
Error(kind, what) == [kind |-> kind, what |-> what]

\* [root / x for x in ids]
Children(p, ids) == [i \in 1..Len(ids) |-> Child(p, ids[i].v)]

\* The requested subject directories, or the error for the first one of
\* them that is no directory.
WantedSubjects(d, ids, wanted, firstMissing) ==
  IF firstMissing = 0 THEN [dirs |-> wanted, errors |-> <<>>]
  ELSE [dirs |-> <<>>,
        errors |-> <<Error("subject_not_found", ids[firstMissing].v)>>]

\* The subject directories to scan, or the error that ends the scan.
SubjectDirs(d, ord, bids_dir, subjects_spec) ==
  IF PyEq(subjects_spec, JStr(All))
  THEN LET IsSubject(q) == is_dir(d, q) /\ StartsWith(Name(q), SubDash)
       IN [dirs |-> sorted(SelectSeq(iterdir(d, ord, bids_dir), IsSubject)),
           errors |-> <<>>]
  ELSE WantedSubjects(d, subjects_spec.v, Children(bids_dir, subjects_spec.v),
         MinOr({ i \in 1..Len(subjects_spec.v) :
                   ~is_dir(d, Child(bids_dir, subjects_spec.v[i].v)) }, 0))

\* The subject directory itself when it has no session directory.
OrItself(found, sub_dir) == IF found = <<>> THEN <<sub_dir>> ELSE found

\* Session directories taken in the order the filesystem lists them in.
SessionDirsAsListed(d, ord, sub_dir, sessions_spec) ==
  LET IsSession(q) == is_dir(d, q) /\ StartsWith(Name(q), SesDash)
      Exists(q) == is_dir(d, q)
  IN IF PyEq(sessions_spec, JStr(All))
     THEN OrItself(SelectSeq(iterdir(d, ord, sub_dir), IsSession), sub_dir)
     ELSE SelectSeq(Children(sub_dir, sessions_spec.v), Exists)

\* The session directories of one subject: the sorted ones it has, or
\* itself, when every session is wanted; the requested ones that exist
\* otherwise.
SessionDirs(d, ord, sub_dir, sessions_spec) ==
  LET IsSession(q) == is_dir(d, q) /\ StartsWith(Name(q), SesDash)
      Exists(q) == is_dir(d, q)
  IN IF PyEq(sessions_spec, JStr(All))
     THEN OrItself(sorted(SelectSeq(iterdir(d, ord, sub_dir), IsSession)),
                   sub_dir)
     ELSE SelectSeq(Children(sub_dir, sessions_spec.v), Exists)

\* The entry of one file of a datatype directory, if it is a regular file
\* whose name parses and matches.
EntryOf(d, fpath, selection, parsed) ==
  IF ~is_file(d, fpath) THEN <<>>
  ELSE IF parsed = None THEN <<>>
  ELSE IF ~matches_selection(parsed, selection) THEN <<>>
  ELSE << [path |-> PathStr(fpath),
           entities |-> parsed.entities,
           suffix |-> parsed.suffix,
           sidecar_path |-> find_sidecar(d, PathStr(fpath))] >>

\* The loop over the files of one datatype directory.
RECURSIVE FileEntries(_, _, _)
FileEntries(d, fpaths, selection) ==
  IF fpaths = <<>> THEN <<>>
  ELSE EntryOf(d, fpaths[1], selection, parse_bids_filename(Name(fpaths[1])))
       \o FileEntries(d, Tail(fpaths), selection)

\* The matched files of one datatype directory; none when it does not exist.
ScanDatatypeDir(d, ord, dt_dir, selection) ==
  IF ~is_dir(d, dt_dir) THEN <<>>
  ELSE FileEntries(d, sorted(iterdir(d, ord, dt_dir)), selection)

\* The loop over the session directories of one subject.
RECURSIVE ScanSessions(_, _, _, _)
ScanSessions(d, ord, ses_dirs, selection) ==
  IF ses_dirs = <<>> THEN <<>>
  ELSE ScanDatatypeDir(d, ord, Child(ses_dirs[1], selection["datatype"].v),
                       selection)
       \o ScanSessions(d, ord, Tail(ses_dirs), selection)

\* The loop over the subject directories.
RECURSIVE ScanSubjects(_, _, _, _)
ScanSubjects(d, ord, subject_dirs, selection) ==
  IF subject_dirs = <<>> THEN <<>>
  ELSE ScanSessions(d, ord,
                    SessionDirs(d, ord, subject_dirs[1],
                                GetOr(selection, "sessions", JStr(All))),
                    selection)
       \o ScanSubjects(d, ord, Tail(subject_dirs), selection)

\* find_matching_files once the subject directories are known.
ScanFrom(d, ord, subjects, selection) ==
  IF subjects.errors # <<>>
  THEN [matched |-> <<>>, errors |-> subjects.errors]
  ELSE [matched |-> ScanSubjects(d, ord, subjects.dirs, selection),
        errors |-> <<>>]

find_matching_files(d, ord, bids_dir, selection) ==
  IF ~Truthy(Get(selection, "datatype"))
  THEN [matched |-> <<>>, errors |-> <<Error("missing_datatype", <<>>)>>]
  ELSE ScanFrom(d, ord,
                SubjectDirs(d, ord, bids_dir,
                            GetOr(selection, "subjects", JStr(All))),
                selection)

(***************************************************************************)
(* extract_sidecar_params                                                  *)
(*                                                                         *)
(* An insertion-ordered dict with computed keys is the sequence of its     *)
(* items [k, v].                                                           *)
(***************************************************************************)
Item(k, v) == [k |-> k, v |-> v]

Keys(dict) == { dict[i].k : i \in 1..Len(dict) }

\* dict[k], for a key of the dict.
Lookup(dict, k) == dict[CHOOSE i \in 1..Len(dict) : dict[i].k = k].v

\* dict.setdefault(k, v): a key that is there keeps its value.
DictSetDefault(dict, k, v) ==
  IF k \in Keys(dict) THEN dict ELSE Append(dict, Item(k, v))

\* dict[k] = v: a key that is there keeps its place and takes the value.
DictSet(dict, k, v) ==
  IF k \in Keys(dict)
  THEN [i \in 1..Len(dict) |-> IF dict[i].k = k THEN Item(k, v) ELSE dict[i]]
  ELSE Append(dict, Item(k, v))

\* What a call leaves: the value it returned, or the exception it raised.
Returned(v) == [t |-> "returned", v |-> v]
Raised == [t |-> "raised", v |-> "TypeError"]

\* needle in haystack, for two strings.
Substring(needle, haystack) ==
  \E i \in 0..Len(haystack) : StartsWithAt(haystack, i, needle)

\* k in data, where it does not raise: a key of an object, an item of a
\* list, a substring of a string.
Contains(data, k) ==
  CASE data.t = "obj" -> k \in DOMAIN data.v
    [] data.t = "list" -> InList(JStr(k), data.v)
    [] data.t = "str" -> Substring(k, data.v)

\* {k: data[k] for k in param_names if k in data}, the items so far in acc.
\* k in data raises TypeError for a number, a boolean and null; data[k]
\* raises TypeError for a list and a string.
RECURSIVE Comprehension(_, _, _)
Comprehension(data, param_names, acc) ==
  IF param_names = <<>> THEN Returned(acc)
  ELSE IF data.t \notin {"obj", "list", "str"} THEN Raised
  ELSE IF ~Contains(data, param_names[1].v)
  THEN Comprehension(data, Tail(param_names), acc)
  ELSE IF data.t # "obj" THEN Raised
  ELSE Comprehension(data, Tail(param_names),
                     DictSet(acc, param_names[1].v,
                             data.v[param_names[1].v]))

\* json.load of what the file holds, and the comprehension on its value.
\* IOError and JSONDecodeError are caught.
LoadAndExtract(content, param_names) ==
  IF content.t # "json" THEN Returned(<<>>)
  ELSE Comprehension(content.v, param_names, <<>>)

\* The content of the file with the given path string.
ContentOf(d, str) ==
  d.content[CHOOSE f \in d.files : PathStr(f) = str]

extract_sidecar_params(d, sidecar_path, param_names) ==
  IF ~Truthy(sidecar_path) THEN Returned(<<>>)
  ELSE IF ~isfile(d, sidecar_path.v) THEN Returned(<<>>)
  ELSE LoadAndExtract(ContentOf(d, sidecar_path.v), param_names)

(***************************************************************************)
(* resolve_queries                                                         *)
(***************************************************************************)

\* {'class': 'File', 'path': path}
FileRef(path) == [t |-> "file", v |-> path]

\* re.sub(r'(?<!^)(?=[A-Z])', '_', name).lower()
RECURSIVE SnakeFrom(_, _)
SnakeFrom(name, i) ==
  IF i > Len(name) THEN <<>>
  ELSE (IF i > 1 /\ name[i] \in Upper THEN <<"_">> ELSE <<>>)
       \o <<LowerChar(name[i])>> \o SnakeFrom(name, i + 1)

snake_name(param_name) == SnakeFrom(param_name, 1)

\* The file list of a selection.
FileEntriesOf(matched) == [i \in 1..Len(matched) |-> FileRef(matched[i].path)]

\* The events entry, or the warning, of one matched file.
EventsEntry(events_path) ==
  IF events_path # None THEN <<FileRef(events_path.v)>> ELSE <<>>

\* os.path.basename: what follows the last slash.
basename(str) ==
  LET slashes == { i \in 1..Len(str) : str[i] = "/" }
  IN IF slashes = {} THEN str
     ELSE From(str, CHOOSE i \in slashes : \A j \in slashes : j <= i)

EventsWarning(path, events_path) ==
  IF events_path # None THEN <<>>
  ELSE <<Error("no_events", basename(path))>>

\* events_entries after the loop over the matched files.
RECURSIVE EventsEntries(_, _)
EventsEntries(d, matched) ==
  IF matched = <<>> THEN <<>>
  ELSE EventsEntry(find_events_file(d, matched[1].path))
       \o EventsEntries(d, Tail(matched))

\* The warnings of the loop over the matched files.
RECURSIVE EventsWarnings(_, _)
EventsWarnings(d, matched) ==
  IF matched = <<>> THEN <<>>
  ELSE EventsWarning(matched[1].path, find_events_file(d, matched[1].path))
       \o EventsWarnings(d, Tail(matched))

\* The events key is registered only for a list that is not empty.
RegisterEvents(st, key, events_entries, warnings) ==
  [st EXCEPT !.all_warnings = @ \o warnings,
             !.resolved = IF events_entries = <<>> THEN @
                          ELSE DictSet(@, key \o EventsKey,
                                       JList(events_entries))]

\* Lines 228-240: the events file pairing.
WithEvents(st, d, key, selection, matched) ==
  IF ~Truthy(Get(selection, "include_events")) THEN st
  ELSE RegisterEvents(st, key, EventsEntries(d, matched),
                      EventsWarnings(d, matched))

\* resolved[snake_name] = param_value for each item of params.
RECURSIVE RegisterAll(_, _)
RegisterAll(res, params) ==
  IF params = <<>> THEN res
  ELSE RegisterAll(DictSet(res, snake_name(params[1].k), params[1].v),
                   Tail(params))

RegisterParams(st, params) ==
  IF params.t = "raised" THEN [st EXCEPT !.raised = TRUE]
  ELSE [st EXCEPT !.resolved = RegisterAll(@, params.v)]

\* Lines 242-251: the sidecar parameters, of the first matched file.
WithParams(st, d, extract_params, matched) ==
  IF Truthy(extract_params) /\ matched # <<>>
  THEN RegisterParams(st, extract_sidecar_params(d, matched[1].sidecar_path,
                                                 extract_params.v))
  ELSE st

\* Lines 221-226: the file list, registered under the selection's key.
WithFiles(st, key, found) ==
  [st EXCEPT !.all_errors = @ \o found.errors,
             !.resolved = DictSet(@, key, JList(FileEntriesOf(found.matched)))]

\* The body of the loop from the result of find_matching_files on.
AfterFind(st, d, key, selection, found) ==
  IF found.matched = <<>> /\ found.errors = <<>>
  THEN [st EXCEPT !.all_errors = Append(@, Error("zero_matches", key))]
  ELSE WithParams(
         WithEvents(WithFiles(st, key, found), d, key, selection,
                    found.matched),
         d, GetOr(selection, "extract_sidecar_params", JList(<<>>)),
         found.matched)

\* One pass of the loop of resolve_queries, on
\* st = [resolved, all_errors, all_warnings, raised].
resolve_selection(st, d, ord, bids_dir, key, selection) ==
  AfterFind(st, d, key, selection,
            find_matching_files(d, ord, bids_dir, selection))

\* resolve_queries from the i-th selection on; an exception ends it.
RECURSIVE ResolveFrom(_, _, _, _, _, _)
ResolveFrom(st, d, ord, bids_dir, selections, i) ==
  IF i > Len(selections) \/ st.raised THEN st
  ELSE ResolveFrom(resolve_selection(st, d, ord, bids_dir,
                                     selections[i].k, selections[i].v),
                   d, ord, bids_dir, selections, i + 1)

Fresh ==
  [resolved |-> <<>>, all_errors |-> <<>>, all_warnings |-> <<>>,
   raised |-> FALSE]

resolve_queries(d, ord, bids_dir, selections) ==
  ResolveFrom(Fresh, d, ord, bids_dir, selections, 1)

(***************************************************************************)
(* write_job_yml and the summary of main                                   *)
(***************************************************************************)
Chars_true == <<"t","r","u","e">>
Chars_false == <<"f","a","l","s","e">>
Chars_None == <<"N","o","n","e">>
ClassFileLine == <<" "," ","-"," ","c","l","a","s","s",":"," ","F","i","l","e">>
PathPrefix == <<" "," "," "," ","p","a","t","h",":"," ">>
ItemPrefix == <<" "," ","-"," ">>
\* The characters that make _yaml_scalar quote a string, but for the
\* backquote, which no string of the model holds.
SpecialChars ==
  {":", "{", "}", "[", "]", ",", "\"", "'", "|", ">", "&", "*", "!", "%", "#",
   "@"}

\* str(n) for a natural number n.
RECURSIVE IntStr(_)
IntStr(n) ==
  IF n < 10 THEN <<CharOrder[4 + n]>>
  ELSE IntStr(n \div 10) \o <<CharOrder[4 + (n % 10)]>>

\* A string, quoted if it holds a special character.
Quoted(str) ==
  IF \E i \in 1..Len(str) : str[i] \in SpecialChars
  THEN <<"\"">> \o str \o <<"\"">> ELSE str

\* ', '.join(_yaml_scalar(v) for v in items)
RECURSIVE _yaml_scalar(_)
RECURSIVE JoinScalars(_)
JoinScalars(items) ==
  IF items = <<>> THEN <<>>
  ELSE IF Len(items) = 1 THEN _yaml_scalar(items[1])
  ELSE _yaml_scalar(items[1]) \o <<",", " ">> \o JoinScalars(Tail(items))

_yaml_scalar(value) ==
  CASE value.t = "bool" -> IF value.v THEN Chars_true ELSE Chars_false
    [] value.t = "num" -> IntStr(value.v)
    [] value.t = "list" -> <<"[">> \o JoinScalars(value.v) \o <<"]">>
    [] value.t = "none" -> Chars_None
    [] value.t = "str" -> Quoted(value.v)

\* The lines of the items of a list value.
RECURSIVE ItemLines(_)
ItemLines(items) ==
  IF items = <<>> THEN <<>>
  ELSE (IF items[1].t = "file"
        THEN <<ClassFileLine, PathPrefix \o items[1].v>>
        ELSE <<ItemPrefix \o _yaml_scalar(items[1])>>)
       \o ItemLines(Tail(items))

\* The lines of the job document; the values of the model are lists and
\* scalars.
RECURSIVE write_job_yml(_)
write_job_yml(res) ==
  IF res = <<>> THEN <<>>
  ELSE (IF res[1].v.t = "list"
        THEN <<res[1].k \o <<":">>>> \o ItemLines(res[1].v.v)
        ELSE <<res[1].k \o <<":", " ">> \o _yaml_scalar(res[1].v)>>)
       \o write_job_yml(Tail(res))

\* sum(len(v) for v in resolved.values() if isinstance(v, list))
RECURSIVE total_files(_)
total_files(res) ==
  IF res = <<>> THEN 0
  ELSE (IF res[1].v.t = "list" THEN Len(res[1].v.v) ELSE 0)
       + total_files(Tail(res))

(***************************************************************************)
(* State                                                                   *)
(***************************************************************************)
VARIABLES
  fs,            \* the dataset: its directories, files and sidecar contents
  order,         \* the order in which the filesystem lists a directory
  query,         \* the query document: its selections, in document order
  pc,            \* where the program is
  idx,           \* the number of selections resolve_queries has visited
  resolved,      \* resolve_queries: the ordered mapping key -> value
  all_errors,    \* resolve_queries: the errors recorded so far
  all_warnings,  \* resolve_queries: the warnings recorded so far
  visited,       \* the selection names visited, in the order of the visits
  result,        \* what main left behind: exit code, job document, summary
  arg,           \* the argument of the function under test
  ret            \* what the function under test returned

vars == << fs, order, query, pc, idx, resolved, all_errors, all_warnings,
           visited, result, arg, ret >>

mainVars == << fs, order, query, idx, resolved, all_errors, all_warnings,
               visited, result >>

\* The variables of main while a single function is under test.
MainIdle ==
  /\ fs = None
  /\ order = None
  /\ query = <<>>
  /\ idx = 0
  /\ resolved = <<>>
  /\ all_errors = <<>>
  /\ all_warnings = <<>>
  /\ visited = <<>>
  /\ result = None

(***************************************************************************)
(* The filename parser on constructed filenames                            *)
(***************************************************************************)
MaxEntities == 2

ParseKeys == { ENTITY_KEYS[1], ENTITY_KEYS[3], ENTITY_KEYS[6],
               ENTITY_KEYS[8], ENTITY_KEYS[18] }
ParseValues == { <<"0","1">>, <<"r","u","n">>, <<"A","b">> }
ParseSuffixes == { <<"b","o","l","d">>, <<"T","1","w">>, <<"r","e","c">> }
Extensions == { DotNii, DotNiiGz }

Token(key, value) == [key |-> key, value |-> value]

\* The sequences of at most n tokens with distinct keys.
RECURSIVE TokenSeqs(_)
TokenSeqs(n) ==
  IF n = 0 THEN { <<>> }
  ELSE LET shorter == TokenSeqs(n - 1)
       IN shorter \cup
          { Append(ts, Token(k, v)) :
              ts \in { x \in shorter : Len(x) = n - 1 },
              k \in ParseKeys, v \in ParseValues }

DistinctKeys(ts) ==
  \A i, j \in 1..Len(ts) : ts[i].key = ts[j].key => i = j

\* key-value tokens joined by _ .
RECURSIVE JoinTokens(_)
JoinTokens(ts) ==
  IF ts = <<>> THEN <<>>
  ELSE IF Len(ts) = 1 THEN ts[1].key \o <<"-">> \o ts[1].value
  ELSE ts[1].key \o <<"-">> \o ts[1].value \o <<"_">> \o JoinTokens(Tail(ts))

BuildFilename(ts, suffix, extension) ==
  JoinTokens(ts) \o <<"_">> \o suffix \o extension

\* The entity mapping a token sequence with distinct keys stands for.
EntityValues(ts) ==
  [k \in { ts[i].key : i \in 1..Len(ts) } |->
     ts[CHOOSE i \in 1..Len(ts) : ts[i].key = k].value ]

InitParse ==
  /\ MainIdle
  /\ pc = "call"
  /\ ret = None
  /\ \E ts \in { x \in TokenSeqs(MaxEntities) : DistinctKeys(x) },
        suffix \in ParseSuffixes, extension \in Extensions :
        arg = [tokens |-> ts, suffix |-> suffix, extension |-> extension]

ParseCall ==
  /\ pc = "call"
  /\ ret' = parse_bids_filename(
              BuildFilename(arg.tokens, arg.suffix, arg.extension))
  /\ pc' = "returned"
  /\ UNCHANGED << mainVars, arg >>

NextParse == ParseCall

SpecParse == InitParse /\ [][NextParse]_vars

\* C4: parsing a filename built from distinct vocabulary keys with non-empty
\* alphanumeric values, a non-empty alphanumeric suffix and an extension in
\* {.nii, .nii.gz} returns exactly that entity mapping, that suffix and that
\* extension, and never 'not parseable'.
ParseRoundTrip ==
  pc = "returned" =>
    /\ ret # None
    /\ ret.entities = EntityValues(arg.tokens)
    /\ ret.suffix = arg.suffix
    /\ ret.extension = arg.extension

ParseRoundTripWitness ==
  /\ pc = "returned"
  /\ Len(arg.tokens) = 2
  /\ arg.tokens[1].key = ENTITY_KEYS[18]
  /\ arg.tokens[2].value = <<"r","u","n">>
  /\ arg.extension = DotNiiGz
  /\ ret # None
  /\ ret.entities = EntityValues(arg.tokens)
  /\ ret.suffix = arg.suffix

(***************************************************************************)
(* The selection matcher on parsed filenames                               *)
(***************************************************************************)
MaxRunList == 2

MatchTasks == { <<"a">>, <<"b">> }
MatchRuns == { <<"1">>, <<"2">> }
MatchAcqs == { <<"x">>, <<"y">> }
MatchSuffixes == { <<"b","o","l","d">>, <<"T","1","w">> }

\* The optional token of one entity: absent, or one of its values.
OptToken(key, values) == { <<>> } \cup { <<Token(key, v)>> : v \in values }

MatchFilenames ==
  { BuildFilename(<<Token(ENTITY_KEYS[1], <<"1">>)>> \o task \o acq \o run,
                  suffix, DotNii) :
      task \in OptToken(K_task, MatchTasks),
      acq \in OptToken(K_acq, MatchAcqs),
      run \in OptToken(K_run, MatchRuns \cup { <<"3">> }),
      suffix \in MatchSuffixes }

\* The lists of at most n run values.
RECURSIVE RunLists(_)
RunLists(n) ==
  IF n = 0 THEN { <<>> }
  ELSE LET shorter == RunLists(n - 1)
       IN shorter \cup
          { Append(l, JStr(r)) :
              l \in { x \in shorter : Len(x) = n - 1 }, r \in MatchRuns }

\* The dicts that leave each field out or set it to one of its values.
RECURSIVE DictOf(_)
DictOf(fieldValues) ==
  IF DOMAIN fieldValues = {} THEN { <<>> }
  ELSE LET n == CHOOSE m \in DOMAIN fieldValues : TRUE
           rest == DictOf([m \in DOMAIN fieldValues \ {n} |-> fieldValues[m]])
       IN rest \cup { (n :> v) @@ r : r \in rest, v \in fieldValues[n] }

MatchSelections ==
  DictOf([ suffix |-> { JStr(x) : x \in MatchSuffixes },
           task |-> { JStr(All), JStr(<<"a">>) },
           acq |-> { JStr(All), JStr(<<"x">>) },
           run |-> { JStr(All), JStr(<<"1">>) }
                     \cup { JList(l) : l \in RunLists(MaxRunList) } ])

InitMatch ==
  /\ MainIdle
  /\ pc = "call"
  /\ ret = None
  /\ \E filename \in MatchFilenames, selection \in MatchSelections :
        arg = [filename |-> filename, selection |-> selection]

MatchCall ==
  /\ pc = "call"
  /\ ret' = [t |-> "bool",
             v |-> matches_selection(parse_bids_filename(arg.filename),
                                     arg.selection)]
  /\ pc' = "returned"
  /\ UNCHANGED << mainVars, arg >>

NextMatch == MatchCall

SpecMatch == InitMatch /\ [][NextMatch]_vars

ArgEntities == parse_bids_filename(arg.filename).entities

OtherFiltersPass ==
  LET parsed == parse_bids_filename(arg.filename)
  IN /\ SuffixFilterPasses(parsed, arg.selection)
     /\ EqualFilterPasses(parsed.entities, arg.selection, "task", K_task)
     /\ EqualFilterPasses(parsed.entities, arg.selection, "acq", K_acq)

RunFilterSet ==
  /\ "run" \in DOMAIN arg.selection
  /\ arg.selection["run"] # JStr(All)

\* C5: with a list as run filter and the other filters passing, a file
\* matches iff its run entity value is in the list; a file with no run entity
\* never matches a run filter other than "all", list or single value.
RunFilterMembership ==
  pc = "returned" =>
    /\ (RunFilterSet /\ arg.selection["run"].t = "list" /\ OtherFiltersPass)
         => (ret.v <=> /\ K_run \in DOMAIN ArgEntities
                       /\ \E i \in 1..Len(arg.selection["run"].v) :
                            arg.selection["run"].v[i].v = ArgEntities[K_run])
    /\ (RunFilterSet /\ K_run \notin DOMAIN ArgEntities) => ~ret.v

RunFilterMembershipWitness ==
  /\ pc = "returned"
  /\ RunFilterSet
  /\ arg.selection["run"].t = "list"
  /\ Len(arg.selection["run"].v) = 2
  /\ K_run \in DOMAIN ArgEntities
  /\ ArgEntities[K_run] = arg.selection["run"].v[2].v
  /\ ArgEntities[K_run] # arg.selection["run"].v[1].v
  /\ "task" \in DOMAIN arg.selection
  /\ ret.v

(***************************************************************************)
(* The datasets of the model                                               *)
(***************************************************************************)
Root == <<"d","s">>
\* Path(bids_dir)
BidsDir == <<Root>>
N_sub1 == <<"s","u","b","-","1">>
N_sub2 == <<"s","u","b","-","2">>
N_sub9 == <<"s","u","b","-","9">>
N_ses1 == <<"s","e","s","-","1">>
N_ses2 == <<"s","e","s","-","2">>
N_ses9 == <<"s","e","s","-","9">>
N_func == <<"f","u","n","c">>
N_anat == <<"a","n","a","t">>
N_dwi == <<"d","w","i">>
N_code == <<"c","o","d","e">>
S_bold == <<"b","o","l","d">>
S_T1w == <<"T","1","w">>

SubTok(v) == Token(ENTITY_KEYS[1], v)
SesTok(v) == Token(ENTITY_KEYS[2], v)
TaskTok(v) == Token(K_task, v)

Func1 == <<Root, N_sub1, N_func>>
Anat1 == <<Root, N_sub1, N_anat>>
Func21 == <<Root, N_sub2, N_ses1, N_func>>
Func22 == <<Root, N_sub2, N_ses2, N_func>>

\* sub-1/func/sub-1_task-a_bold.nii.gz, its sidecar and its events table
Stem1a == JoinTokens(<<SubTok(<<"1">>), TaskTok(<<"a">>)>>)
Bold1a == Child(Func1, Stem1a \o BoldNiiGz)
Json1a == Child(Func1, Stem1a \o <<"_">> \o S_bold \o DotJson)
Events1a == Child(Func1, Stem1a \o EventsTsv)
\* sub-1/func/sub-1_task-b_bold.nii, which has no companion
Bold1b == Child(Func1, JoinTokens(<<SubTok(<<"1">>), TaskTok(<<"b">>)>>)
                         \o BoldNii)
\* sub-1/func/sub-1_task-c_bold.nii, a directory
BoldDir == Child(Func1, JoinTokens(<<SubTok(<<"1">>), TaskTok(<<"c">>)>>)
                          \o BoldNii)
\* sub-1/anat/sub-1_T1w.nii and its sidecar
T1w1 == Child(Anat1, BuildFilename(<<SubTok(<<"1">>)>>, S_T1w, DotNii))
JsonT1w1 == Child(Anat1, JoinTokens(<<SubTok(<<"1">>)>>) \o <<"_">> \o S_T1w
                           \o DotJson)
\* sub-2, with two sessions
Bold21 == Child(Func21, BuildFilename(
             <<SubTok(<<"2">>), SesTok(<<"1">>), TaskTok(<<"a">>)>>,
             S_bold, DotNii))
Bold21b == Child(Func21, BuildFilename(
             <<SubTok(<<"2">>), SesTok(<<"1">>), TaskTok(<<"b">>)>>,
             S_bold, DotNii))
Bold22 == Child(Func22, BuildFilename(
             <<SubTok(<<"2">>), SesTok(<<"2">>), TaskTok(<<"a">>)>>,
             S_bold, DotNii))

\* The sidecar fields of the model.
P_RT == <<"R","T">>
P_rT == <<"r","T">>
P_ST == <<"S","T">>

\* What reading a file gives: JSON text, by the value it stands for; text
\* that is no JSON; an IOError.
Json(v) == [t |-> "json", v |-> v]

ObjRT == JObj((P_RT :> JNum(2)) @@ (P_ST :> JList(<<JNum(0), JNum(1)>>)))
ObjrT == JObj(P_rT :> JNum(3))

\* The directories above a path.
Parents(p) == { Upto(p, n) : n \in 1..(Len(p) - 1) }

\* The dataset with or without the events table of Bold1a, and with the
\* sidecar of Bold1a absent (None) or holding the given content.
Dataset(withEvents, sidecar) ==
  LET files == { Bold1a, Bold1b, T1w1, JsonT1w1, Bold21, Bold21b, Bold22 }
                 \cup (IF withEvents THEN {Events1a} ELSE {})
                 \cup (IF sidecar = None THEN {} ELSE {Json1a})
  IN [ dirs |-> UNION { Parents(f) : f \in files }
                  \cup { <<Root, N_code>>, BoldDir },
       files |-> files,
       content |-> [f \in { x \in files : EndsWith(Name(x), DotJson) } |->
                      IF f = Json1a THEN sidecar ELSE Json(ObjrT)] ]

Orders == { "ascending", "descending" }

(***************************************************************************)
(* The directory scanner on selections that scope subjects and sessions    *)
(***************************************************************************)
MaxIdList == 2

\* The lists of at most n of the given names.
RECURSIVE NameLists(_, _)
NameLists(names, n) ==
  IF n = 0 THEN { <<>> }
  ELSE LET shorter == NameLists(names, n - 1)
       IN shorter \cup
          { Append(l, JStr(x)) :
              l \in { y \in shorter : Len(y) = n - 1 }, x \in names }

ScanSelections ==
  DictOf([ datatype |-> { JStr(N_func), JStr(N_anat) },
           suffix |-> { JStr(S_bold) },
           subjects |-> { JStr(All), JList(<<JStr(N_sub9)>>) } \cup
             { JList(l) : l \in NameLists({N_sub1, N_sub2}, MaxIdList) },
           sessions |-> { JStr(All), JList(<<JStr(N_ses9), JStr(N_ses1)>>) }
             \cup { JList(l) : l \in NameLists({N_ses1, N_ses2}, MaxIdList) }
         ])

InitScan ==
  /\ pc = "call"
  /\ ret = None
  /\ fs = Dataset(TRUE, None)
  /\ order \in Orders
  /\ query = <<>>
  /\ idx = 0
  /\ resolved = <<>>
  /\ all_errors = <<>>
  /\ all_warnings = <<>>
  /\ visited = <<>>
  /\ result = None
  /\ \E selection \in ScanSelections : arg = [selection |-> selection]

ScanCall ==
  /\ pc = "call"
  /\ ret' = find_matching_files(fs, order, BidsDir, arg.selection)
  /\ pc' = "returned"
  /\ UNCHANGED << mainVars, arg >>

NextScan == ScanCall

SpecScan == InitScan /\ [][NextScan]_vars

\* The parts of a path string.
RECURSIVE Split(_)
Split(str) ==
  LET slashes == { i \in 1..Len(str) : str[i] = "/" }
      last == CHOOSE i \in slashes : \A j \in slashes : j <= i
  IN IF slashes = {} THEN <<str>>
     ELSE Append(Split(Upto(str, last - 1)), From(str, last))

\* (subject directory, session directory, filename) of a matched file; the
\* session directory of a file of a subject without sessions is empty.
Triple(entry) ==
  LET parts == Split(entry.path)
  IN << parts[2],
        IF Len(parts) = 5 THEN parts[3] ELSE <<>>,
        parts[Len(parts)] >>

\* The matched files are in strictly increasing order of their triples.
TripleOrdered(matched) ==
  \A i, j \in 1..Len(matched) :
     i < j => PathLess(Triple(matched[i]), Triple(matched[j]))

\* "all", by default or as given, or a list in strictly increasing order.
AllOrIncreasing(selection, field) ==
  LET spec == GetOr(selection, field, JStr(All))
  IN \/ spec = JStr(All)
     \/ /\ spec.t = "list"
        /\ \A i, j \in 1..Len(spec.v) :
              i < j => StrLess(spec.v[i].v, spec.v[j].v)

\* C3 as stated: whatever the order of the explicit lists, the matched files
\* are ordered subject-then-session-then-filename lexicographically.
ScanOrderLexicographic ==
  pc = "returned" => TripleOrdered(ret.matched)

\* C3 as amended: the matched files are ordered subject-then-session-then-
\* filename lexicographically when subjects and sessions are each "all" or
\* an explicit list in strictly increasing order.
ScanOrderWhenListsIncrease ==
  (/\ pc = "returned"
   /\ AllOrIncreasing(arg.selection, "subjects")
   /\ AllOrIncreasing(arg.selection, "sessions"))
  => TripleOrdered(ret.matched)

ScanOrderWitness ==
  /\ pc = "returned"
  /\ order = "descending"
  /\ "subjects" \in DOMAIN arg.selection
  /\ arg.selection["subjects"] = JList(<<JStr(N_sub1), JStr(N_sub2)>>)
  /\ GetOr(arg.selection, "sessions", JStr(All)) = JStr(All)
  /\ Len(ret.matched) = 5
  /\ TripleOrdered(ret.matched)

(***************************************************************************)
(* The sidecar parameter extractor on sidecars of every kind               *)
(***************************************************************************)
MaxParams == 2

Malformed == [t |-> "malformed"]
Unreadable == [t |-> "unreadable"]

SidecarContents ==
  { None, Malformed, Unreadable,
    Json(ObjRT), Json(JNum(5)), Json(None), Json(JTrue),
    Json(JList(<<>>)), Json(JList(<<JStr(P_RT)>>)),
    Json(JStr(<<"a">>)), Json(JStr(<<"x">> \o P_RT)) }

SidecarPaths ==
  { None, JStr(<<>>), JStr(PathStr(Json1a)), JStr(PathStr(JsonT1w1)),
    JStr(PathStr(Func1)) }

InitSidecar ==
  /\ pc = "call"
  /\ ret = None
  /\ \E sidecar \in SidecarContents : fs = Dataset(TRUE, sidecar)
  /\ order = "ascending"
  /\ query = <<>>
  /\ idx = 0
  /\ resolved = <<>>
  /\ all_errors = <<>>
  /\ all_warnings = <<>>
  /\ visited = <<>>
  /\ result = None
  /\ \E sidecar_path \in SidecarPaths,
        param_names \in NameLists({P_RT, P_rT, P_ST}, MaxParams) :
        arg = [sidecar_path |-> sidecar_path, param_names |-> param_names]

SidecarCall ==
  /\ pc = "call"
  /\ ret' = extract_sidecar_params(fs, arg.sidecar_path, arg.param_names)
  /\ pc' = "returned"
  /\ UNCHANGED << mainVars, arg >>

NextSidecar == SidecarCall

SpecSidecar == InitSidecar /\ [][NextSidecar]_vars

\* What the sidecar path of the call holds: None when it names no file.
ArgContent ==
  IF Truthy(arg.sidecar_path) /\ isfile(fs, arg.sidecar_path.v)
  THEN ContentOf(fs, arg.sidecar_path.v) ELSE None

\* C8: extract_sidecar_params never raises, whatever the sidecar path and
\* whatever the sidecar holds; the mapping it returns holds only requested
\* field names found in the sidecar, and is empty when the sidecar is absent,
\* unreadable or not valid JSON.
ExtractNeverRaises ==
  pc = "returned" =>
    /\ ret.t = "returned"
    /\ \A k \in Keys(ret.v) :
         /\ \E i \in 1..Len(arg.param_names) : arg.param_names[i].v = k
         /\ ArgContent.t = "json"
         /\ ArgContent.v.t = "obj"
         /\ k \in DOMAIN ArgContent.v.v
         /\ Lookup(ret.v, k) = ArgContent.v.v[k]
    /\ ArgContent.t # "json" => ret.v = <<>>

(***************************************************************************)
(* main                                                                    *)
(***************************************************************************)

\* What a run leaves behind: the exit code, the job document written (None
\* when none was), the count of the summary line (None when none was
\* printed), and whether the run ended by an uncaught exception.
ExitFailure(raised) ==
  [exit_code |-> 1, job |-> None, summary |-> None, raised |-> raised]

ExitSuccess(res) ==
  [exit_code |-> 0, job |-> [t |-> "doc", v |-> write_job_yml(res)],
   summary |-> JNum(total_files(res)), raised |-> FALSE]

\* Lines 343-354, on what resolve_queries returned.
Report(res, errors) ==
  IF errors # <<>> THEN ExitFailure(FALSE) ELSE ExitSuccess(res)

\* main from the call of resolve_queries on; an uncaught exception ends the
\* interpreter with exit code 1.
run_main(st) ==
  IF st.raised THEN ExitFailure(TRUE) ELSE Report(st.resolved, st.all_errors)

(***************************************************************************)
(* The resolver on query documents                                         *)
(***************************************************************************)
MaxSelections == 2

\* The selection names of a document, by position.
KeyNames == << <<"a">>, <<"b">>, <<"c">>, <<"d">> >>

Both == JList(<<JStr(P_RT), JStr(P_ST)>>)

Catalogue ==
  { \* every BOLD run, with events and two sidecar fields
    [datatype |-> JStr(N_func), suffix |-> JStr(S_bold),
     include_events |-> JTrue, extract_sidecar_params |-> Both],
    \* the BOLD runs of two subjects, listed out of order
    [datatype |-> JStr(N_func),
     subjects |-> JList(<<JStr(N_sub2), JStr(N_sub1)>>)],
    \* the anatomical images, with events and one sidecar field
    [datatype |-> JStr(N_anat), suffix |-> JStr(S_T1w),
     include_events |-> JTrue,
     extract_sidecar_params |-> JList(<<JStr(P_rT)>>)],
    \* one task of one subject
    [datatype |-> JStr(N_func), task |-> JStr(<<"a">>),
     subjects |-> JList(<<JStr(N_sub1)>>), include_events |-> JTrue,
     extract_sidecar_params |-> JList(<<JStr(P_RT)>>)],
    \* a datatype the dataset does not have
    [datatype |-> JStr(N_dwi), include_events |-> JTrue],
    \* no datatype
    [suffix |-> JStr(S_bold), include_events |-> JTrue,
     extract_sidecar_params |-> Both],
    \* a subject the dataset does not have
    [datatype |-> JStr(N_func),
     subjects |-> JList(<<JStr(N_sub1), JStr(N_sub9)>>)] }

\* The documents of at most n selections.
RECURSIVE Documents(_)
Documents(n) ==
  IF n = 0 THEN { <<>> }
  ELSE LET shorter == Documents(n - 1)
       IN shorter \cup
          { Append(q, Item(KeyNames[n], selection)) :
              q \in { y \in shorter : Len(y) = n - 1 },
              selection \in Catalogue }

\* The sidecar of the first BOLD file: absent, an object, a number.
Sidecars == { None, Json(ObjRT), Json(JNum(5)) }

Init ==
  /\ pc = "resolve"
  /\ \E withEvents \in BOOLEAN, sidecar \in Sidecars :
        fs = Dataset(withEvents, sidecar)
  /\ order \in Orders
  /\ query \in Documents(MaxSelections)
  /\ idx = 0
  /\ resolved = <<>>
  /\ all_errors = <<>>
  /\ all_warnings = <<>>
  /\ visited = <<>>
  /\ result = None
  /\ arg = None
  /\ ret = None

\* The locals of resolve_queries.
Locals ==
  [resolved |-> resolved, all_errors |-> all_errors,
   all_warnings |-> all_warnings, raised |-> FALSE]

\* One pass of the loop of resolve_queries; an exception it does not catch
\* ends the run.
ResolveSelection ==
  /\ pc = "resolve"
  /\ idx < Len(query)
  /\ \E st \in { resolve_selection(Locals, fs, order, BidsDir,
                                   query[idx + 1].k, query[idx + 1].v) } :
        /\ resolved' = st.resolved
        /\ all_errors' = st.all_errors
        /\ all_warnings' = st.all_warnings
        /\ IF st.raised
           THEN pc' = "done" /\ result' = ExitFailure(TRUE)
           ELSE pc' = "resolve" /\ result' = result
  /\ idx' = idx + 1
  /\ visited' = Append(visited, query[idx + 1].k)
  /\ UNCHANGED << fs, order, query, arg, ret >>

\* resolve_queries returns.
ResolveReturn ==
  /\ pc = "resolve"
  /\ idx = Len(query)
  /\ pc' = "report"
  /\ UNCHANGED << mainVars, arg, ret >>

\* Lines 343-346: the errors are printed and the run fails.
MainFail ==
  /\ pc = "report"
  /\ all_errors # <<>>
  /\ result' = Report(resolved, all_errors)
  /\ pc' = "done"
  /\ UNCHANGED << fs, order, query, idx, resolved, all_errors, all_warnings,
                  visited, arg, ret >>

\* Lines 348-354: the job document is written and the summary printed.
MainWrite ==
  /\ pc = "report"
  /\ all_errors = <<>>
  /\ result' = Report(resolved, all_errors)
  /\ pc' = "done"
  /\ UNCHANGED << fs, order, query, idx, resolved, all_errors, all_warnings,
                  visited, arg, ret >>

Next == ResolveSelection \/ ResolveReturn \/ MainFail \/ MainWrite

Spec == Init /\ [][Next]_vars

(***************************************************************************)
(* The properties of the resolver                                          *)
(***************************************************************************)

\* What find_matching_files gives for the i-th selection of the document.
FoundAt(i) == find_matching_files(fs, order, BidsDir, query[i].v)

IsBold(path) == EndsWith(path, BoldNii) \/ EndsWith(path, BoldNiiGz)

\* The events table paired with a BOLD file: its name with the BOLD ending
\* replaced.
PairedEvents(path) ==
  IF EndsWith(path, BoldNiiGz)
  THEN Upto(path, Len(path) - Len(BoldNiiGz)) \o EventsTsv
  ELSE Upto(path, Len(path) - Len(BoldNii)) \o EventsTsv

\* The matched BOLD files of a selection that have their events table.
WithPairedEvents(matched) ==
  { j \in 1..Len(matched) :
      /\ IsBold(matched[j].path)
      /\ isfile(fs, PairedEvents(matched[j].path)) }

EventsKeyRight(key, matched) ==
  /\ (key \o EventsKey) \in Keys(resolved)
       <=> WithPairedEvents(matched) # {}
  /\ (key \o EventsKey) \in Keys(resolved) =>
       \A e \in 1..Len(Lookup(resolved, key \o EventsKey).v) :
          LET entry == Lookup(resolved, key \o EventsKey).v[e].v
          IN /\ EndsWith(entry, EventsTsv)
             /\ \E j \in WithPairedEvents(matched) :
                   entry = PairedEvents(matched[j].path)
             /\ \A j \in 1..Len(matched) : entry # matched[j].path

\* C1: when resolve_queries has returned, for every selection with
\* include_events set, the key {name}_events is present iff a matched file
\* has an existing paired events table, and every entry under it is a path
\* ending in _events.tsv obtained from a matched BOLD file, never a matched
\* NIfTI path itself.
EventsOnlyFromBold ==
  pc = "report" =>
    \A i \in 1..Len(query) :
       Truthy(Get(query[i].v, "include_events"))
         => EventsKeyRight(query[i].k, FoundAt(i).matched)

\* C2: when the run has ended, every selection has been visited in document
\* order, the exit code is 1 and no job document is written exactly when an
\* error was recorded, and otherwise the job document is written and the
\* exit code is 0.
VisitsAllFailsIffErrors ==
  pc = "done" =>
    /\ visited = [i \in 1..Len(query) |-> query[i].k]
    /\ result.exit_code = 1 <=> all_errors # <<>>
    /\ result.exit_code = 1 => result.job = None
    /\ all_errors = <<>> => result.exit_code = 0 /\ result.job # None

\* The outcome of a run is the one the given listing order gives.
SameOutcome(st) ==
  /\ resolved = st.resolved
  /\ result = run_main(st)

\* C6: when the run has ended, the resolved mapping (keys, their order, every
\* file list) and the job document are those that the same dataset and query
\* give under every order in which the filesystem may list a directory.
ResolutionDeterministic ==
  pc = "done" =>
    \A o \in Orders : SameOutcome(resolve_queries(fs, o, BidsDir, query))

ResolutionDeterministicWitness ==
  /\ pc = "done"
  /\ order = "descending"
  /\ Len(query) = 2
  /\ result.exit_code = 0
  /\ \E i \in 1..Len(query) :
        /\ "subjects" \notin DOMAIN query[i].v
        /\ Len(Lookup(resolved, query[i].k).v) = 5
  /\ SameOutcome(resolve_queries(fs, "ascending", BidsDir, query))

\* The sidecar of the first matched file, when it holds a JSON object.
FirstSidecarObject(matched) ==
  IF matched = <<>> THEN None
  ELSE IF matched[1].sidecar_path = None THEN None
  ELSE IF ContentOf(fs, matched[1].sidecar_path.v).t # "json" THEN None
  ELSE IF ContentOf(fs, matched[1].sidecar_path.v).v.t # "obj" THEN None
  ELSE ContentOf(fs, matched[1].sidecar_path.v).v

\* The values that the requested names converting to the output key have in
\* the object, in the order of the request.
ValuesFor(names, obj, key) ==
  LET Hit(n) == n.v \in DOMAIN obj.v /\ snake_name(n.v) = key
      hits == SelectSeq(names, Hit)
  IN [h \in 1..Len(hits) |-> obj.v[hits[h].v]]

\* The values the i-th selection extracts for the output key.
ExtractedAt(i, key) ==
  IF FirstSidecarObject(FoundAt(i).matched) = None THEN <<>>
  ELSE ValuesFor(GetOr(query[i].v, "extract_sidecar_params", JList(<<>>)).v,
                 FirstSidecarObject(FoundAt(i).matched), key)

OutputKeys == { snake_name(p) : p \in { P_RT, P_rT, P_ST } }

Extracting(key) == { i \in 1..Len(query) : ExtractedAt(i, key) # <<>> }

\* The errors and warnings of the selections, each resolved alone.
RECURSIVE AloneFrom(_, _)
AloneFrom(i, field) ==
  IF i > Len(query) THEN <<>>
  ELSE resolve_selection(Fresh, fs, order, BidsDir,
                         query[i].k, query[i].v)[field]
       \o AloneFrom(i + 1, field)

LaterValueHeld(key, extracting) ==
  Cardinality(extracting) >= 2 =>
    /\ key \in Keys(resolved)
    /\ \E last \in extracting :
          /\ \A i \in extracting : i <= last
          /\ Lookup(resolved, key)
               = ExtractedAt(last, key)[Len(ExtractedAt(last, key))]
    /\ all_errors = AloneFrom(1, "all_errors")
    /\ all_warnings = AloneFrom(1, "all_warnings")

\* C7: when resolve_queries has returned and two selections both extracted a
\* sidecar parameter converting to one output key, that key holds the value
\* from the first matched file's sidecar of the later selection, and the
\* errors and warnings are those of the selections taken alone.
LaterSelectionOverwrites ==
  pc = "report" => \A key \in OutputKeys : LaterValueHeld(key, Extracting(key))

LaterSelectionOverwritesWitness ==
  /\ pc = "report"
  /\ Len(query) = 2
  /\ ExtractedAt(1, snake_name(P_RT)) = <<JNum(2)>>
  /\ ExtractedAt(2, snake_name(P_RT)) = <<JNum(3)>>
  /\ Lookup(resolved, snake_name(P_RT)) = JNum(3)
  /\ all_errors = <<>>

\* C9: when resolve_queries has returned, a selection's own key is in the
\* resolved mapping iff the selection had matches, and no selection key maps
\* to an empty list.
SelectionKeyOnlyWithMatches ==
  pc = "report" =>
    \A i \in 1..Len(query) :
       /\ query[i].k \in Keys(resolved) <=> FoundAt(i).matched # <<>>
       /\ query[i].k \in Keys(resolved)
            => Lookup(resolved, query[i].k).v # <<>>

\* The number of file references in the resolved mapping.
RECURSIVE FileReferences(_)
FileReferences(res) ==
  IF res = <<>> THEN 0
  ELSE (IF res[1].v.t = "list"
        THEN Cardinality({ j \in 1..Len(res[1].v.v) :
                             res[1].v.v[j].t = "file" })
        ELSE 0)
       + FileReferences(Tail(res))

\* C10: on a successful run the count of the summary line is the number of
\* file references in the resolved mapping; values from sidecar parameters,
\* list-valued ones included, add nothing to it.
SummaryCountsFileReferences ==
  (pc = "done" /\ result.exit_code = 0)
    => result.summary = JNum(FileReferences(resolved))

(***************************************************************************)
(* The adjacency matrix builder                                            *)
(* (utils/consensus_connects/build_tool_adjacency.py)                      *)
(***************************************************************************)

\* The greedy run \s* of s from 0-based offset i; the whitespace of the
\* model is the space.
RECURSIVE SpaceRun(_, _)
SpaceRun(s, i) ==
  IF i < Len(s) /\ s[i + 1] = " " THEN 1 + SpaceRun(s, i + 1) ELSE 0

\* The greedy run [A-Za-z0-9_]* of s from 0-based offset i.
RECURSIVE IdRun(_, _)
IdRun(s, i) ==
  IF i < Len(s) /\ (IsAlnum(s[i + 1]) \/ s[i + 1] = "_")
  THEN 1 + IdRun(s, i + 1) ELSE 0

\* The greedy run [^"]* of s from 0-based offset i.
RECURSIVE LabelRun(_, _)
LabelRun(s, i) ==
  IF i < Len(s) /\ s[i + 1] # "\"" THEN 1 + LabelRun(s, i + 1) ELSE 0

OpenLabel == <<"[", "\"">>
CloseLabel == <<"\"", "]">>
Arrow == <<"-", "-", ">">>

\* \s*$ at 0-based offset i.
OnlySpacesFrom(line, i) == i + SpaceRun(line, i) = Len(line)

\* NODE_RE.match(line): its two groups, or None.  Each class of the pattern
\* excludes the character that follows it, so the greedy runs are the match.
NodeAtLabel(line, a, n, l, m) ==
  IF m = 0 THEN None
  ELSE IF ~StartsWithAt(line, l + m, CloseLabel) THEN None
  ELSE IF ~OnlySpacesFrom(line, l + m + 2) THEN None
  ELSE [t |-> "node", id |-> SubSeq(line, a + 1, a + n),
        label |-> SubSeq(line, l + 1, l + m)]

NodeAtBracket(line, a, n, b) ==
  IF ~StartsWithAt(line, b, OpenLabel) THEN None
  ELSE NodeAtLabel(line, a, n, b + 2, LabelRun(line, b + 2))

NodeAfterId(line, a, n) ==
  IF n = 0 THEN None
  ELSE NodeAtBracket(line, a, n, a + n + SpaceRun(line, a + n))

NodeMatchAt(line, a) == NodeAfterId(line, a, IdRun(line, a))

NODE_RE(line) == NodeMatchAt(line, SpaceRun(line, 0))

\* EDGE_RE.match(line): its two groups, or None.
EdgeAtTarget(line, a, n, c, k) ==
  IF k = 0 THEN None
  ELSE IF ~OnlySpacesFrom(line, c + k) THEN None
  ELSE [t |-> "edge", src |-> SubSeq(line, a + 1, a + n),
        dst |-> SubSeq(line, c + 1, c + k)]

EdgeAfterArrow(line, a, n, c) == EdgeAtTarget(line, a, n, c, IdRun(line, c))

EdgeAtArrow(line, a, n, b) ==
  IF ~StartsWithAt(line, b, Arrow) THEN None
  ELSE EdgeAfterArrow(line, a, n, b + 3 + SpaceRun(line, b + 3))

EdgeAfterId(line, a, n) ==
  IF n = 0 THEN None
  ELSE EdgeAtArrow(line, a, n, a + n + SpaceRun(line, a + n))

EdgeMatchAt(line, a) == EdgeAfterId(line, a, IdRun(line, a))

EDGE_RE(line) == EdgeMatchAt(line, SpaceRun(line, 0))

RaisedValueError == [t |-> "raised", v |-> "ValueError"]

\* Lines 68-89: the checks after the loop, and the edges by tool name.
MissingNodeRefs(nodes, edges) ==
  { e \in edges : e[1] \notin Keys(nodes) \/ e[2] \notin Keys(nodes) }

ToolEdges(nodes, edges) ==
  { <<Lookup(nodes, e[1]), Lookup(nodes, e[2])>> : e \in edges }

AfterLines(nodes, edges) ==
  IF nodes = <<>> THEN RaisedValueError
  ELSE IF edges = {} THEN RaisedValueError
  ELSE IF MissingNodeRefs(nodes, edges) # {} THEN RaisedValueError
  ELSE Returned([node_id_to_label |-> nodes,
                 tool_edges |-> ToolEdges(nodes, edges)])

\* Lines 50-66: the loop over the lines; node_id_to_label is the ordered
\* dict nodes, directed_edges_by_id the set edges.
RECURSIVE ParseLines(_, _, _)

EdgeLine(lines, nodes, edges, edge_match) ==
  IF edge_match = None THEN ParseLines(Tail(lines), nodes, edges)
  ELSE ParseLines(Tail(lines), nodes,
                  edges \cup { <<edge_match.src, edge_match.dst>> })

NodeLine(lines, nodes, edges, node_match) ==
  IF node_match = None
  THEN EdgeLine(lines, nodes, edges, EDGE_RE(lines[1]))
  ELSE IF /\ node_match.id \in Keys(nodes)
          /\ Lookup(nodes, node_match.id) # node_match.label
  THEN RaisedValueError
  ELSE ParseLines(Tail(lines),
                  DictSet(nodes, node_match.id, node_match.label), edges)

ParseLines(lines, nodes, edges) ==
  IF lines = <<>> THEN AfterLines(nodes, edges)
  ELSE NodeLine(lines, nodes, edges, NODE_RE(lines[1]))

\* parse_tool_graph on the lines of a graph file that exists.
parse_tool_graph(lines) == ParseLines(lines, <<>>, {})

\* sorted(S) for a set of strings.
MinString(S) == CHOOSE x \in S : \A y \in S \ {x} : StrLess(x, y)

RECURSIVE SortedStrings(_)
SortedStrings(S) ==
  IF S = {} THEN <<>>
  ELSE <<MinString(S)>> \o SortedStrings(S \ {MinString(S)})

\* sorted(S) for a set of pairs of strings.
MinPair(S) == CHOOSE x \in S : \A y \in S \ {x} : PathLess(x, y)

RECURSIVE SortedPairs(_)
SortedPairs(S) ==
  IF S = {} THEN <<>>
  ELSE <<MinPair(S)>> \o SortedPairs(S \ {MinPair(S)})

\* A matrix that reads the edges backwards.
build_matrix_transposed(tool_order, tool_edges) ==
  [i \in 1..Len(tool_order) |->
     [j \in 1..Len(tool_order) |->
        IF <<tool_order[j], tool_order[i]>> \in tool_edges THEN 1 ELSE 0]]

build_matrix(tool_order, tool_edges) ==
  [i \in 1..Len(tool_order) |->
     [j \in 1..Len(tool_order) |->
        IF <<tool_order[i], tool_order[j]>> \in tool_edges THEN 1 ELSE 0]]

Chars_tool == <<"t","o","o","l">>

\* The rows csv.writer is given, as lists of fields; str() of a number.
CsvRow(tool_name, row) ==
  <<tool_name>> \o [j \in 1..Len(row) |-> IntStr(row[j])]

write_csv_matrix(tool_order, matrix) ==
  << <<Chars_tool>> \o tool_order >>
  \o [i \in 1..Len(tool_order) |-> CsvRow(tool_order[i], matrix[i])]

\* sum(sum(row) for row in matrix)
RECURSIVE SumRow(_)
SumRow(row) == IF row = <<>> THEN 0 ELSE row[1] + SumRow(Tail(row))

RECURSIVE SumRows(_)
SumRows(matrix) ==
  IF matrix = <<>> THEN 0 ELSE SumRow(matrix[1]) + SumRows(Tail(matrix))

ToolEdgesForOutput(pairs) ==
  [i \in 1..Len(pairs) |-> [source |-> pairs[i][1], target |-> pairs[i][2]]]

\* The JSON payload, but for generatedAt and sources, which hold the clock
\* and the path of the graph file.
Payload(tool_order, tool_edges, matrix) ==
  [toolOrder |-> tool_order,
   toolToIndex |-> [x \in { tool_order[i] : i \in 1..Len(tool_order) } |->
                      (CHOOSE i \in 1..Len(tool_order) : tool_order[i] = x)
                        - 1],
   toolEdges |-> ToolEdgesForOutput(SortedPairs(tool_edges)),
   matrix |-> matrix,
   edgeCount |-> SumRows(matrix),
   toolCount |-> Len(tool_order)]

\* Lines 219-244: the two artifacts main writes.
Artifacts(tool_order, tool_edges, matrix) ==
  [exit_code |-> 0,
   json |-> Payload(tool_order, tool_edges, matrix),
   csv |-> write_csv_matrix(tool_order, matrix)]

WithOrder(tool_order, tool_edges) ==
  IF tool_order = <<>> THEN None
  ELSE Artifacts(tool_order, tool_edges, build_matrix(tool_order, tool_edges))

\* Lines 215-252, on what parse_tool_graph returned; None when main raises.
BuildArtifacts(parsed) ==
  WithOrder(SortedStrings({ parsed.node_id_to_label[i].v :
                              i \in 1..Len(parsed.node_id_to_label) }),
            parsed.tool_edges)

(***************************************************************************)
(* The adjacency matrix builder on graph files                             *)
(***************************************************************************)
MaxLines == 3

\* A statement of a graph, and a line of a graph file with the statement it
\* is.  The statements of the text format are the node-label statement
\* id["label"] and the edge statement src --> dst, one to a line; any other
\* line (a header, an arrow with a label of its own) is no statement.
NodeStmt(id, label) == [t |-> "node", id |-> id, label |-> label]
EdgeStmt(src, dst) == [t |-> "edge", src |-> src, dst |-> dst]
OtherStmt == [t |-> "other"]
Line(text, stmt) == [text |-> text, stmt |-> stmt]

GraphLines ==
  {
    \* x["b"]
    Line(<<"x","[","\"","b","\"","]">>,
         NodeStmt(<<"x">>, <<"b">>)),
    \*  y ["a"] 
    Line(<<" ","y"," ","[","\"","a","\"","]"," ">>,
         NodeStmt(<<"y">>, <<"a">>)),
    \* x["B"]
    Line(<<"x","[","\"","B","\"","]">>,
         NodeStmt(<<"x">>, <<"B">>)),
    \* z["b"]
    Line(<<"z","[","\"","b","\"","]">>,
         NodeStmt(<<"z">>, <<"b">>)),
    \* x --> y
    Line(<<"x"," ","-","-",">"," ","y">>,
         EdgeStmt(<<"x">>, <<"y">>)),
    \* y-->x
    Line(<<"y","-","-",">","x">>,
         EdgeStmt(<<"y">>, <<"x">>)),
    \* z --> w
    Line(<<"z"," ","-","-",">"," ","w">>,
         EdgeStmt(<<"z">>, <<"w">>)),
    \* y --> z
    Line(<<"y"," ","-","-",">"," ","z">>,
         EdgeStmt(<<"y">>, <<"z">>)),
    \* graph TD
    Line(<<"g","r","a","p","h"," ","T","D">>,
         OtherStmt),
    \* x -->|l| y
    Line(<<"x"," ","-","-",">","|","l","|"," ","y">>,
         OtherStmt) }

\* The graph files of at most n lines.
RECURSIVE GraphFiles(_)
GraphFiles(n) ==
  IF n = 0 THEN { <<>> }
  ELSE LET shorter == GraphFiles(n - 1)
       IN shorter \cup
          { Append(g, l) : g \in { y \in shorter : Len(y) = n - 1 },
                           l \in GraphLines }

\* graph_path.read_text().splitlines()
Texts(graph) == [i \in 1..Len(graph) |-> graph[i].text]

InitGraph ==
  /\ pc = "call"
  /\ ret = None
  /\ MainIdle
  /\ \E graph \in GraphFiles(MaxLines) : arg = [graph |-> graph]

\* Line 213: parse_tool_graph returns, or raises and ends the run.
GraphParse ==
  /\ pc = "call"
  /\ \E parsed \in { parse_tool_graph(Texts(arg.graph)) } :
        /\ ret' = parsed
        /\ pc' = IF parsed.t = "raised" THEN "done" ELSE "parsed"
  /\ UNCHANGED << mainVars, arg >>

\* Lines 215-252: the matrix is built and the two artifacts are written.
GraphBuild ==
  /\ pc = "parsed"
  /\ result' = BuildArtifacts(ret.v)
  /\ pc' = "done"
  /\ UNCHANGED << fs, order, query, idx, resolved, all_errors, all_warnings,
                  visited, arg, ret >>

NextGraph == GraphParse \/ GraphBuild

SpecGraph == InitGraph /\ [][NextGraph]_vars

\* The graph of the file: its node statements and its edge statements.
GraphNodes ==
  { arg.graph[i].stmt : i \in { j \in 1..Len(arg.graph) :
                                  arg.graph[j].stmt.t = "node" } }

GraphEdges ==
  { arg.graph[i].stmt : i \in { j \in 1..Len(arg.graph) :
                                  arg.graph[j].stmt.t = "edge" } }

ConflictingLabels ==
  \E m, n \in GraphNodes : m.id = n.id /\ m.label # n.label

UndefinedNodeRef ==
  \E e \in GraphEdges :
     \/ \A n \in GraphNodes : n.id # e.src
     \/ \A n \in GraphNodes : n.id # e.dst

\* The graph has an edge from a node labelled a to a node labelled b.
LabelledEdge(a, b) ==
  \E e \in GraphEdges, m, n \in GraphNodes :
     /\ m.id = e.src /\ m.label = a
     /\ n.id = e.dst /\ n.label = b

OrderRight(tool_order) ==
  /\ { tool_order[i] : i \in 1..Len(tool_order) }
       = { n.label : n \in GraphNodes }
  /\ \A i, j \in 1..Len(tool_order) :
        i < j => StrLess(tool_order[i], tool_order[j])

MatrixRight(tool_order, matrix) ==
  /\ Len(matrix) = Len(tool_order)
  /\ \A i \in 1..Len(tool_order) :
        /\ Len(matrix[i]) = Len(tool_order)
        /\ \A j \in 1..Len(tool_order) :
              matrix[i][j] = IF LabelledEdge(tool_order[i], tool_order[j])
                             THEN 1 ELSE 0

\* The CSV artifact has the rows and columns of the JSON artifact.
SameOrder(json, csv) ==
  /\ Len(csv) = Len(json.toolOrder) + 1
  /\ Tail(csv[1]) = json.toolOrder
  /\ \A i \in 1..Len(json.toolOrder) :
        /\ csv[i + 1][1] = json.toolOrder[i]
        /\ Tail(csv[i + 1])
             = [j \in 1..Len(json.matrix[i]) |-> IntStr(json.matrix[i][j])]
        /\ json.toolToIndex[json.toolOrder[i]] = i - 1

\* C11: when the run has ended, an accepted graph has given artifacts whose
\* tool order is the sorted set of the distinct node labels, whose matrix is
\* square over that order with entry [i][j] 1 iff the graph has an edge from
\* a node labelled tool_order[i] to a node labelled tool_order[j] and 0
\* otherwise, and whose CSV has the rows and columns of the JSON; a graph
\* with an edge to or from an undefined node ID, or with two labels for one
\* node ID, has been rejected with an error and has given no artifact.
AdjacencyMatrixRight ==
  pc = "done" =>
    /\ result # None =>
         /\ ret.t = "returned"
         /\ OrderRight(result.json.toolOrder)
         /\ MatrixRight(result.json.toolOrder, result.json.matrix)
         /\ SameOrder(result.json, result.csv)
    /\ (ConflictingLabels \/ UndefinedNodeRef) =>
         /\ ret = RaisedValueError
         /\ result = None

AdjacencyMatrixRightWitness ==
  /\ pc = "done"
  /\ result # None
  /\ arg.graph[1].stmt = NodeStmt(<<"x">>, <<"b">>)
  /\ result.json.toolOrder = << <<"a">>, <<"b">> >>
  /\ result.json.matrix = << <<0, 0>>, <<1, 0>> >>
  /\ result.csv[3] = << <<"b">>, <<"1">>, <<"0">> >>

====
